---- MODULE Spec2Model ----
(***************************************************************************)
(* A model of the overlord process supervisor (src/src/lib.rs and          *)
(* src/src/process.rs): the registry actor with its command channel and    *)
(* process list, the supervision loop that `launch` starts for a record,   *)
(* the child processes the loops spawn, and the threads that use them (the *)
(* caller of spawn/quit and an observer that inspects the list).           *)
(*                                                                         *)
(* A std::sync::Mutex is modelled by its holder and its poison flag: a     *)
(* thread that panics while it holds a guard poisons the mutex, and        *)
(* `lock().unwrap()` on a poisoned mutex panics.  Option<T> is modelled as *)
(* a sequence of length 0 (None) or 1 (Some).                              *)
(***************************************************************************)
EXTENDS Integers, Sequences, FiniteSets, TLC

\* ---------------------------------------------------------------- bounds
NumRecords == 2        \* records the caller defines
MaxBudget == 1         \* the caller sets max_restart_count to 0..MaxBudget, or leaves it
MaxStdin == 1          \* messages sent on inbound stdin channels, in total
MaxLines == 2          \* lines a child writes to its stdout in one run

\* process.rs:93: the restart budget define_process gives a record.
DefaultMaxRestartCount == 5

Records == 1..NumRecords
\* Supervision threads: launch number i is the launch of processes[i].
Loops == 1..NumRecords

None == <<>>
Some(x) == <<x>>

\* process.rs:8 enum State
State == {"Stopped", "Starting", "Running", "Restarting", "Failed"}

\* What ExitStatus::code() can return: an exit code, or None when the child
\* was terminated by a signal.
ExitCodes == {0, 1}
StatusCodes == {Some(c) : c \in ExitCodes} \cup {None}

\* The budgets a caller gives a record before it submits it.
Budgets == (0..MaxBudget) \cup {DefaultMaxRestartCount}

VARIABLES
    channel,       \* lib.rs: the mpsc queue of Commands between tx and rx
    processes,     \* lib.rs: the ProcessList behind the SharedProcessList
    listGuard,     \* holder of the list's Mutex: "free", "actor", "observer"
    listPoisoned,  \* poison flag of the list's Mutex
    actor,         \* the actor thread: [pc, cmd]
    client,        \* the thread that owns the Overlord: "open", "joining", ...
    submitted,     \* history: the records whose Spawn command was enqueued
    proc,          \* process.rs: the _Process fields of each record
    guard,         \* holder of each record's Mutex: "free", "sup", "observer"
    poisoned,      \* poison flag of each record's Mutex
    stdinQ,        \* messages queued on each record's inbound stdin channel
    sent,          \* history: messages sent on stdin channels so far
    sup,           \* the thread of each launch: [pc, res]
    kid,           \* the OS child of each launch's loop (its local `child`)
    observer       \* an external thread inspecting the list: [pc, rec]

vars == <<channel, processes, listGuard, listPoisoned, actor, client, submitted,
          proc, guard, poisoned, stdinQ, sent, sup, kid, observer>>

registryVars == <<channel, processes, listGuard, listPoisoned, actor, client, submitted>>
recordVars == <<proc, guard, poisoned, stdinQ, sent>>
loopVars == <<sup, kid>>

\* ------------------------------------------------------------ process.rs

\* process.rs:83-108 define_process: the record a caller gets.  wbuf is the
\* number of messages held in stdin_writer's buffer; stdout is what was sent
\* on the outbound stdout channel (stdout_sender to stdout), oldest first.
define_process ==
    [ handle |-> None,
      state |-> "Stopped",
      exit_status |-> None,
      restart_count |-> 0,
      max_restart_count |-> DefaultMaxRestartCount,
      pid |-> None,
      stdin_writer |-> None,
      stdout_reader |-> None,
      stderr_reader |-> None,
      wbuf |-> 0,
      stdout |-> <<>>,
      child |-> None ]

\* A loop's child: st is "none" before the first spawn, then "alive" or
\* "exited"; code is what ExitStatus::code() gives once it has exited; out
\* and err tell whether the child's end of each pipe is still open; runs
\* counts the children the loop has spawned.  pipe holds the lines written
\* to the child's stdout and not yet read, wrote counts the lines the
\* current child has written, and log is the history of all lines the
\* loop's children have written.
NoChild == [st |-> "none", code |-> None, out |-> FALSE, err |-> FALSE, runs |-> 0,
            pipe |-> <<>>, wrote |-> 0, log |-> <<>>]

\* The n-th line that the k-th child of a loop writes to its stdout.
Line(k, n) == <<k, n>>

\* process.rs:143 child.id(): the pid of the n-th child that loop i spawns.
PidOf(i, n) == i * (DefaultMaxRestartCount + 2) + n

\* process.rs:113 `lockable`: the record the i-th launch supervises.
RecOf(i) == processes[i]

\* ---------------------------------------------------------------- Init
\* The state after Overlord::new() and define_process for every record:
\* nothing is submitted and nothing is launched.
Init ==
    /\ channel = <<>>
    /\ processes = <<>>
    /\ listGuard = "free"
    /\ listPoisoned = FALSE
    /\ actor = [pc |-> "recv", cmd |-> None]
    /\ client = "open"
    /\ submitted = <<>>
    /\ proc = [r \in Records |-> define_process]
    /\ guard = [r \in Records |-> "free"]
    /\ poisoned = [r \in Records |-> FALSE]
    /\ stdinQ = [r \in Records |-> 0]
    /\ sent = 0
    /\ sup = [i \in Loops |-> [pc |-> "none", res |-> None]]
    /\ kid = [i \in Loops |-> NoChild]
    /\ observer = [pc |-> "idle", rec |-> None]

\* ------------------------------------------- process.rs: launch, the loop

\* A spawn that also records an exit status of 0.
SpawnedWithStatus(p, i, n) ==
    [p EXCEPT !.stdin_writer = Some(i),
              !.stdout_reader = Some(i),
              !.stderr_reader = Some(i),
              !.wbuf = 0,
              !.state = "Running",
              !.exit_status = Some(0),
              !.pid = Some(PidOf(i, n)),
              !.child = Some(i)]

\* process.rs:137-144: the fields the loop sets once the child is spawned.
\* Replacing stdin_writer drops the previous BufWriter and what it buffered.
Spawned(p, i, n) ==
    [p EXCEPT !.stdin_writer = Some(i),
              !.stdout_reader = Some(i),
              !.stderr_reader = Some(i),
              !.wbuf = 0,
              !.state = "Running",
              !.pid = Some(PidOf(i, n)),
              !.child = Some(i)]

\* Every exit recorded as a code, 0 for a signal termination.
ExitStatusSignalAsZero(code) == IF Len(code) > 0 THEN Some(Head(code)) ELSE Some(0)

\* process.rs:196-201: the exit status recorded from status.code().
ExitStatusOf(code) == IF Len(code) > 0 THEN Some(Head(code)) ELSE None

\* The budget test with > for >=: one restart too many.
BudgetExhaustedOffByOne(p) == p.restart_count > p.max_restart_count

\* process.rs:234: the restart budget test.
BudgetExhausted(p) == p.restart_count >= p.max_restart_count

\* Failing counted as one more restart.
FailedCounting(p) == [p EXCEPT !.state = "Failed", !.restart_count = @ + 1]

\* process.rs:225 and 236.
Failed(p) == [p EXCEPT !.state = "Failed"]

\* A restart that puts the record back to Stopped.
RestartedStopped(p) == [p EXCEPT !.restart_count = @ + 1, !.state = "Stopped"]

\* process.rs:240-241.
Restarted(p) == [p EXCEPT !.restart_count = @ + 1, !.state = "Restarting"]

\* process.rs:175-181: at most one queued message is taken and written to
\* the BufWriter, which buffers it (the loop never flushes).
StdinFlushed(p, queued) == IF Len(p.stdin_writer) > 0 /\ queued > 0
                           THEN [p EXCEPT !.wbuf = @ + 1] ELSE p

StdinTaken(p, queued) == IF Len(p.stdin_writer) > 0 /\ queued > 0
                         THEN queued - 1 ELSE queued

\* A read that never waits: the for loop ends whatever the stream holds.
AtEofOrIdle(reader, stream) == TRUE

\* process.rs:159-160 and 167-168: BufRead::lines() yields lines until the
\* read returns 0 bytes, which a pipe does only once its write end is
\* closed: the for loop over it ends exactly when the stream of the child
\* behind the reader is shut.  The streams carry text lines.
AtEof(reader, stream) ==
    \/ Len(reader) = 0
    \/ IF stream = "out"
       THEN ~kid[Head(reader)].out /\ kid[Head(reader)].pipe = <<>>
       ELSE ~kid[Head(reader)].err

\* process.rs:119-146, cmd.spawn() succeeds: under the record guard the
\* child is spawned and the record becomes Running.
SupSpawn(i) ==
    /\ sup[i].pc = "spawn"
    /\ LET r == RecOf(i) IN
        /\ guard[r] = "free" /\ ~poisoned[r]
        /\ kid' = [kid EXCEPT ![i] = [st |-> "alive", code |-> None, out |-> TRUE,
                                      err |-> TRUE, runs |-> @.runs + 1,
                                      pipe |-> <<>>, wrote |-> 0, log |-> @.log]]
        /\ proc' = [proc EXCEPT ![r] = Spawned(@, i, kid[i].runs + 1)]
    /\ sup' = [sup EXCEPT ![i].pc = "poll"]
    /\ UNCHANGED <<registryVars, guard, poisoned, stdinQ, sent, observer>>

\* A failed spawn that marks the record Failed before the thread ends.
SupSpawnFailMarking(i) ==
    /\ sup[i].pc = "spawn"
    /\ LET r == RecOf(i) IN
        /\ guard[r] = "free" /\ ~poisoned[r]
        /\ poisoned' = [poisoned EXCEPT ![r] = TRUE]
        /\ proc' = [proc EXCEPT ![r].state = "Failed"]
    /\ sup' = [sup EXCEPT ![i].pc = "panicked"]
    /\ UNCHANGED <<registryVars, guard, stdinQ, sent, kid, observer>>

\* process.rs:135, cmd.spawn() fails: expect() panics while the record guard
\* is held, which poisons the record's mutex and ends the thread.
SupSpawnFail(i) ==
    /\ sup[i].pc = "spawn"
    /\ LET r == RecOf(i) IN
        /\ guard[r] = "free" /\ ~poisoned[r]
        /\ poisoned' = [poisoned EXCEPT ![r] = TRUE]
    /\ sup' = [sup EXCEPT ![i].pc = "panicked"]
    /\ UNCHANGED <<registryVars, proc, guard, stdinQ, sent, kid, observer>>

\* process.rs:150-156: after the 10 ms sleep the loop takes the record guard
\* and keeps it for the whole iteration.
SupPollLock(i) ==
    /\ sup[i].pc = "poll"
    /\ LET r == RecOf(i) IN
        /\ guard[r] = "free" /\ ~poisoned[r]
        /\ guard' = [guard EXCEPT ![r] = "sup"]
    /\ sup' = [sup EXCEPT ![i].pc = "stdout"]
    /\ UNCHANGED <<registryVars, proc, poisoned, stdinQ, sent, kid, observer>>

\* process.rs:159-165, the body of the for loop: the next line of the
\* stream behind stdout_reader is sent on the outbound stdout channel.
SupStdoutLine(i) ==
    /\ sup[i].pc = "stdout"
    /\ LET r == RecOf(i)
           k == Head(proc[r].stdout_reader)
       IN /\ Len(kid[k].pipe) > 0
          /\ proc' = [proc EXCEPT ![r].stdout = Append(@, Head(kid[k].pipe))]
          /\ kid' = [kid EXCEPT ![k].pipe = Tail(@)]
    /\ UNCHANGED <<registryVars, guard, poisoned, stdinQ, sent, sup, observer>>

\* process.rs:159-165: relay the child's stdout, to the end of the stream.
SupStdout(i) ==
    /\ sup[i].pc = "stdout"
    /\ AtEof(proc[RecOf(i)].stdout_reader, "out")
    /\ sup' = [sup EXCEPT ![i].pc = "stderr"]
    /\ UNCHANGED <<registryVars, recordVars, kid, observer>>

\* process.rs:167-173: relay the child's stderr, to the end of the stream.
SupStderr(i) ==
    /\ sup[i].pc = "stderr"
    /\ AtEof(proc[RecOf(i)].stderr_reader, "err")
    /\ sup' = [sup EXCEPT ![i].pc = "stdin"]
    /\ UNCHANGED <<registryVars, recordVars, kid, observer>>

\* process.rs:175-181: flush one inbound stdin message, if any.
SupStdin(i) ==
    /\ sup[i].pc = "stdin"
    /\ LET r == RecOf(i) IN
        /\ proc' = [proc EXCEPT ![r] = StdinFlushed(@, stdinQ[r])]
        /\ stdinQ' = [stdinQ EXCEPT ![r] = StdinTaken(proc[r], @)]
    /\ sup' = [sup EXCEPT ![i].pc = "try_wait"]
    /\ UNCHANGED <<registryVars, guard, poisoned, sent, kid, observer>>

\* process.rs:194-203, try_wait() = Ok(Some(status)): the exit status is
\* recorded, the poll loop is left with Ok and the guard dropped.
SupWaitExited(i) ==
    /\ sup[i].pc = "try_wait"
    /\ kid[i].st = "exited"
    /\ LET r == RecOf(i) IN
        /\ proc' = [proc EXCEPT ![r].exit_status = ExitStatusOf(kid[i].code)]
        /\ guard' = [guard EXCEPT ![r] = "free"]
    /\ sup' = [sup EXCEPT ![i] = [pc |-> "restart", res |-> Some("Ok")]]
    /\ UNCHANGED <<registryVars, poisoned, stdinQ, sent, kid, observer>>

\* process.rs:207-209, try_wait() = Ok(None): next iteration.
SupWaitRunning(i) ==
    /\ sup[i].pc = "try_wait"
    /\ kid[i].st = "alive"
    /\ guard' = [guard EXCEPT ![RecOf(i)] = "free"]
    /\ sup' = [sup EXCEPT ![i].pc = "poll"]
    /\ UNCHANGED <<registryVars, proc, poisoned, stdinQ, sent, kid, observer>>

\* A liveness-check error treated as an exit: on to the budget test.
SupWaitErrRetry(i) ==
    /\ sup[i].pc = "try_wait"
    /\ guard' = [guard EXCEPT ![RecOf(i)] = "free"]
    /\ sup' = [sup EXCEPT ![i] = [pc |-> "restart", res |-> Some("Err")]]
    /\ UNCHANGED <<registryVars, proc, poisoned, stdinQ, sent, kid, observer>>

\* process.rs:204-206, try_wait() = Err(e): the OS could not tell; the poll
\* loop is left with Err.
SupWaitErr(i) ==
    /\ sup[i].pc = "try_wait"
    /\ guard' = [guard EXCEPT ![RecOf(i)] = "free"]
    /\ sup' = [sup EXCEPT ![i] = [pc |-> "fatal", res |-> Some("Err")]]
    /\ UNCHANGED <<registryVars, proc, poisoned, stdinQ, sent, kid, observer>>

\* The Err arm without its break: the loop goes on to the budget test.
SupFatalNoBreak(i) ==
    /\ sup[i].pc = "fatal"
    /\ LET r == RecOf(i) IN
        /\ guard[r] = "free" /\ ~poisoned[r]
        /\ proc' = [proc EXCEPT ![r] = Failed(@)]
    /\ sup' = [sup EXCEPT ![i].pc = "restart"]
    /\ UNCHANGED <<registryVars, guard, poisoned, stdinQ, sent, kid, observer>>

\* process.rs:222-227: a liveness-check error fails the record and ends the
\* loop.
SupFatal(i) ==
    /\ sup[i].pc = "fatal"
    /\ LET r == RecOf(i) IN
        /\ guard[r] = "free" /\ ~poisoned[r]
        /\ proc' = [proc EXCEPT ![r] = Failed(@)]
    /\ sup' = [sup EXCEPT ![i].pc = "done"]
    /\ UNCHANGED <<registryVars, guard, poisoned, stdinQ, sent, kid, observer>>

\* The loop ending, with the record left as it is, after an exit with code 0.
SupRestartStopOnZero(i) ==
    /\ sup[i].pc = "restart"
    /\ LET r == RecOf(i) IN
        /\ guard[r] = "free" /\ ~poisoned[r]
        /\ IF proc[r].exit_status = Some(0)
           THEN /\ sup' = [sup EXCEPT ![i].pc = "done"]
                /\ UNCHANGED proc
           ELSE IF BudgetExhausted(proc[r])
           THEN /\ proc' = [proc EXCEPT ![r] = Failed(@)]
                /\ sup' = [sup EXCEPT ![i].pc = "done"]
           ELSE /\ proc' = [proc EXCEPT ![r] = Restarted(@)]
                /\ sup' = [sup EXCEPT ![i].pc = "spawn"]
    /\ UNCHANGED <<registryVars, guard, poisoned, stdinQ, sent, kid, observer>>

\* A budget per loop: the test counts the loop's own restarts.
SupRestartOwnBudget(i) ==
    /\ sup[i].pc = "restart"
    /\ LET r == RecOf(i) IN
        /\ guard[r] = "free" /\ ~poisoned[r]
        /\ IF kid[i].runs - 1 >= proc[r].max_restart_count
           THEN /\ proc' = [proc EXCEPT ![r] = Failed(@)]
                /\ sup' = [sup EXCEPT ![i].pc = "done"]
           ELSE /\ proc' = [proc EXCEPT ![r] = Restarted(@)]
                /\ sup' = [sup EXCEPT ![i].pc = "spawn"]
    /\ UNCHANGED <<registryVars, guard, poisoned, stdinQ, sent, kid, observer>>

\* process.rs:230-245: after an exit, fail the record and end the loop when
\* the budget is used up, else count the restart and, after restart_delay,
\* spawn again.
SupRestart(i) ==
    /\ sup[i].pc = "restart"
    /\ LET r == RecOf(i) IN
        /\ guard[r] = "free" /\ ~poisoned[r]
        /\ IF BudgetExhausted(proc[r])
           THEN /\ proc' = [proc EXCEPT ![r] = Failed(@)]
                /\ sup' = [sup EXCEPT ![i].pc = "done"]
           ELSE /\ proc' = [proc EXCEPT ![r] = Restarted(@)]
                /\ sup' = [sup EXCEPT ![i].pc = "spawn"]
    /\ UNCHANGED <<registryVars, guard, poisoned, stdinQ, sent, kid, observer>>

\* process.rs:159-173: the loop of launch i holds the record guard in a read
\* of its child's output that has not come to the end of the stream.
BlockedOnOutput(i) ==
    \/ sup[i].pc = "stdout" /\ ~AtEof(proc[RecOf(i)].stdout_reader, "out")
    \/ sup[i].pc = "stderr" /\ ~AtEof(proc[RecOf(i)].stderr_reader, "err")

\* process.rs:120, 152, 224 and 232: lockable.lock().unwrap() panics, and
\* the thread ends, when the record's mutex was poisoned by another thread
\* (a second loop launched on the record whose spawn failed).
SupLockPoisoned(i) ==
    /\ sup[i].pc \in {"spawn", "poll", "fatal", "restart"}
    /\ LET r == RecOf(i) IN guard[r] = "free" /\ poisoned[r]
    /\ sup' = [sup EXCEPT ![i].pc = "panicked"]
    /\ UNCHANGED <<registryVars, recordVars, kid, observer>>

\* process.rs:117-246: a step of the supervision thread of launch i.
SupStep(i) ==
    \/ SupSpawn(i) \/ SupSpawnFail(i) \/ SupPollLock(i) \/ SupStdout(i)
    \/ SupStderr(i) \/ SupStdin(i) \/ SupWaitExited(i) \/ SupWaitRunning(i)
    \/ SupWaitErr(i) \/ SupFatal(i) \/ SupRestart(i) \/ SupLockPoisoned(i)
    \/ SupStdoutLine(i)

\* ---------------------------------------------------------- the children
\* What a spawned child may do on its own: shut its stdout or stderr, or
\* terminate (which shuts both) with an exit code or by a signal.  A child
\* is followed for as long as a running loop polls it or reads its streams:
\* its own loop, or another loop launched on the same record, which reads
\* through the record's stdout_reader and stderr_reader.
ReadBy(i, j) ==
    /\ j <= Len(processes)
    /\ sup[j].pc \notin {"none", "done", "panicked"}
    /\ \/ proc[processes[j]].stdout_reader = Some(i)
       \/ proc[processes[j]].stderr_reader = Some(i)

Watched(i) == IF sup[i].pc \notin {"done", "panicked"} THEN TRUE
              ELSE \E j \in Loops : ReadBy(i, j)

\* process.rs:131: the child writes a line to its stdout, a pipe.
KidWrite(i) ==
    /\ Watched(i)
    /\ kid[i].st = "alive" /\ kid[i].out
    /\ kid[i].wrote < MaxLines
    /\ LET l == Line(kid[i].runs, kid[i].wrote + 1) IN
        kid' = [kid EXCEPT ![i].pipe = Append(@, l),
                           ![i].wrote = @ + 1,
                           ![i].log = Append(@, l)]
    /\ UNCHANGED <<registryVars, recordVars, sup, observer>>

KidCloseStdout(i) ==
    /\ Watched(i)
    /\ kid[i].st = "alive" /\ kid[i].out
    /\ kid' = [kid EXCEPT ![i].out = FALSE]
    /\ UNCHANGED <<registryVars, recordVars, sup, observer>>

KidCloseStderr(i) ==
    /\ Watched(i)
    /\ kid[i].st = "alive" /\ kid[i].err
    /\ kid' = [kid EXCEPT ![i].err = FALSE]
    /\ UNCHANGED <<registryVars, recordVars, sup, observer>>

KidExit(i, code) ==
    /\ Watched(i)
    /\ kid[i].st = "alive"
    /\ kid' = [kid EXCEPT ![i].st = "exited", ![i].code = code,
                          ![i].out = FALSE, ![i].err = FALSE]
    /\ UNCHANGED <<registryVars, recordVars, sup, observer>>

\* ------------------------------------------------------ lib.rs: Overlord

\* The record put at the front of the list.
pushFront(list, r) == <<r>> \o list

\* The list replaced by the new record alone.
pushReplacing(list, r) == <<r>>

\* lib.rs:50: plist.push(p.clone()).
push(list, r) == Append(list, r)

\* lib.rs:46: rx.recv() takes the oldest command of the channel (the
\* position it is taken from).
recv(queue) == 1

\* The queue without its k-th command.
Without(queue, k) == [j \in 1..(Len(queue) - 1) |-> IF j < k THEN queue[j] ELSE queue[j + 1]]

\* process.rs:282 and lib.rs:74-76: the caller sets the budget of a record
\* it has defined (or leaves it at b, the default) and passes the record to
\* spawn, which sends a Spawn command and returns.  The send fails, and
\* unwrap() panics, once the actor thread has gone and dropped rx.  A
\* record is submitted at most once; records are numbered in the order the
\* caller submits them.
ClientSpawn(r, b) ==
    /\ client = "open"
    /\ r = Len(submitted) + 1
    /\ IF actor.pc = "panicked"
       THEN /\ client' = "panicked"
            /\ UNCHANGED <<channel, submitted, proc>>
       ELSE /\ proc' = [proc EXCEPT ![r].max_restart_count = b]
            /\ channel' = Append(channel, [cmd |-> "Spawn", rec |-> r])
            /\ submitted' = Append(submitted, r)
            /\ UNCHANGED client
    /\ UNCHANGED <<processes, listGuard, listPoisoned, actor, guard, poisoned,
                   stdinQ, sent, loopVars, observer>>

\* lib.rs:74-76 with process.rs:46: the caller passes another clone of a
\* record it has already submitted; a Process is a shared pointer, so the
\* actor will push and launch the same record once more.
ClientSpawnAgain(r) ==
    /\ client = "open"
    /\ \E k \in 1..Len(submitted) : submitted[k] = r
    /\ IF actor.pc = "panicked"
       THEN /\ client' = "panicked"
            /\ UNCHANGED <<channel, submitted>>
       ELSE /\ channel' = Append(channel, [cmd |-> "Spawn", rec |-> r])
            /\ submitted' = Append(submitted, r)
            /\ UNCHANGED client
    /\ UNCHANGED <<processes, listGuard, listPoisoned, actor, recordVars,
                   loopVars, observer>>

\* lib.rs:70: quit sends Quit (and panics when the actor has gone).
ClientQuit ==
    /\ client = "open"
    /\ IF actor.pc = "panicked"
       THEN /\ client' = "panicked"
            /\ UNCHANGED channel
       ELSE /\ channel' = Append(channel, [cmd |-> "Quit", rec |-> 0])
            /\ client' = "joining"
    /\ UNCHANGED <<processes, listGuard, listPoisoned, actor, submitted,
                   recordVars, loopVars, observer>>

\* A join that does not wait for the thread.
JoinedAtOnce(a) == TRUE

\* lib.rs:71: join() returns once the actor thread has ended.
Joined(a) == a.pc \in {"done", "panicked"}

\* lib.rs:71: join() returns Err, and unwrap() panics, when the actor thread
\* ended by a panic.
ClientJoin ==
    /\ client = "joining"
    /\ Joined(actor)
    /\ client' = IF actor.pc = "panicked" THEN "panicked" ELSE "returned"
    /\ UNCHANGED <<channel, processes, listGuard, listPoisoned, actor, submitted,
                   recordVars, loopVars, observer>>

\* A Quit that also ends every supervision loop.
ActorRecvStoppingLoops ==
    /\ actor.pc = "recv"
    /\ Len(channel) > 0
    /\ LET k == recv(channel) IN
        /\ channel' = Without(channel, k)
        /\ IF channel[k].cmd = "Quit"
           THEN /\ actor' = [pc |-> "done", cmd |-> None]
                /\ sup' = [i \in Loops |-> IF sup[i].pc = "none" THEN sup[i]
                                            ELSE [sup[i] EXCEPT !.pc = "done"]]
           ELSE /\ actor' = [pc |-> "lock", cmd |-> Some(channel[k].rec)]
                /\ UNCHANGED sup
    /\ UNCHANGED <<processes, listGuard, listPoisoned, client, submitted,
                   recordVars, kid, observer>>

\* lib.rs:46-47 and 53-56: the actor receives the next command; Quit ends
\* its loop.
ActorRecv ==
    /\ actor.pc = "recv"
    /\ Len(channel) > 0
    /\ LET k == recv(channel) IN
        /\ channel' = Without(channel, k)
        /\ actor' = IF channel[k].cmd = "Quit" THEN [pc |-> "done", cmd |-> None]
                    ELSE [pc |-> "lock", cmd |-> Some(channel[k].rec)]
    /\ UNCHANGED <<processes, listGuard, listPoisoned, client, submitted,
                   recordVars, loopVars, observer>>

\* lib.rs:49-51 with process.rs:113-116: the actor takes the list guard,
\* pushes the record and, in launch, starts the record's supervision thread.
ActorPush ==
    /\ actor.pc = "lock"
    /\ listGuard = "free" /\ ~listPoisoned
    /\ listGuard' = "actor"
    /\ processes' = push(processes, Head(actor.cmd))
    /\ sup' = [sup EXCEPT ![Len(processes) + 1].pc = "spawn"]
    /\ actor' = [actor EXCEPT !.pc = "handle"]
    /\ UNCHANGED <<channel, listPoisoned, client, submitted, recordVars, kid, observer>>

\* lib.rs:49: the list's mutex is poisoned, unwrap() panics and the actor
\* thread ends, dropping rx and the commands still queued.
ActorListPoisoned ==
    /\ actor.pc = "lock"
    /\ listGuard = "free" /\ listPoisoned
    /\ actor' = [pc |-> "panicked", cmd |-> None]
    /\ channel' = <<>>
    /\ UNCHANGED <<processes, listGuard, listPoisoned, client, submitted,
                   recordVars, loopVars, observer>>

\* process.rs:248, the end of launch: the actor, still holding the list
\* guard, takes the record guard to store the thread's handle; the arm of
\* lib.rs:47-52 then ends and the list guard is dropped.
ActorSetHandle ==
    /\ actor.pc = "handle"
    /\ LET r == Head(actor.cmd) IN
        /\ guard[r] = "free" /\ ~poisoned[r]
        /\ proc' = [proc EXCEPT ![r].handle = Some(Len(processes))]
    /\ listGuard' = "free"
    /\ actor' = [pc |-> "recv", cmd |-> None]
    /\ UNCHANGED <<channel, processes, listPoisoned, client, submitted,
                   guard, poisoned, stdinQ, sent, loopVars, observer>>

\* process.rs:248 when the new thread has already panicked in spawn: the
\* record's mutex is poisoned, unwrap() panics in the actor thread while it
\* holds the list guard, so the list's mutex is poisoned too.
ActorHandlePoisoned ==
    /\ actor.pc = "handle"
    /\ LET r == Head(actor.cmd) IN guard[r] = "free" /\ poisoned[r]
    /\ listGuard' = "free"
    /\ listPoisoned' = TRUE
    /\ actor' = [pc |-> "panicked", cmd |-> None]
    /\ channel' = <<>>
    /\ UNCHANGED <<processes, client, submitted, recordVars, loopVars, observer>>

\* ------------------------------------------------------------ an observer
\* lib.rs:97-101 and 115-124: a thread that inspects the registry takes the
\* list guard, then the guard of a record of the list, and drops both.
\* lock().unwrap() panics on a poisoned mutex; a panic under the list guard
\* poisons the list's mutex.
ObsLockList ==
    /\ observer.pc = "idle"
    /\ listGuard = "free"
    /\ IF listPoisoned
       THEN /\ observer' = [pc |-> "panicked", rec |-> None]
            /\ UNCHANGED listGuard
       ELSE /\ observer' = [pc |-> "list", rec |-> None]
            /\ listGuard' = "observer"
    /\ UNCHANGED <<channel, processes, listPoisoned, actor, client, submitted,
                   recordVars, loopVars>>

ObsLockRecord(k) ==
    /\ observer.pc = "list"
    /\ k \in 1..Len(processes)
    /\ LET r == processes[k] IN
        /\ guard[r] = "free"
        /\ IF poisoned[r]
           THEN /\ observer' = [pc |-> "panicked", rec |-> None]
                /\ listGuard' = "free"
                /\ listPoisoned' = TRUE
                /\ UNCHANGED guard
           ELSE /\ observer' = [pc |-> "rec", rec |-> Some(r)]
                /\ guard' = [guard EXCEPT ![r] = "observer"]
                /\ UNCHANGED <<listGuard, listPoisoned>>
    /\ UNCHANGED <<channel, processes, actor, client, submitted,
                   proc, poisoned, stdinQ, sent, loopVars>>

\* process.rs:31: the holder of a record's guard sends a message on the
\* record's inbound stdin channel.
ObsSendStdin ==
    /\ observer.pc = "rec"
    /\ sent < MaxStdin
    /\ stdinQ' = [stdinQ EXCEPT ![Head(observer.rec)] = @ + 1]
    /\ sent' = sent + 1
    /\ UNCHANGED <<registryVars, proc, guard, poisoned, loopVars, observer>>

\* An observer that drops the list guard only and keeps the record's.
ObsUnlockListOnly ==
    /\ observer.pc \in {"list", "rec"}
    /\ listGuard' = "free"
    /\ observer' = [pc |-> "idle", rec |-> None]
    /\ UNCHANGED <<channel, processes, listPoisoned, actor, client, submitted,
                   recordVars, loopVars>>

ObsUnlock ==
    /\ observer.pc \in {"list", "rec"}
    /\ listGuard' = "free"
    /\ guard' = IF observer.pc = "rec"
                THEN [guard EXCEPT ![Head(observer.rec)] = "free"] ELSE guard
    /\ observer' = [pc |-> "idle", rec |-> None]
    /\ UNCHANGED <<channel, processes, listPoisoned, actor, client, submitted,
                   proc, poisoned, stdinQ, sent, loopVars>>

\* ------------------------------------------------------------------ Next
\* One supervised record, as in lib.rs:92-144: the caller submits a single
\* record, whose children may do anything a child can do.
Next ==
    \/ \E r \in Records, b \in Budgets : Len(submitted) = 0 /\ ClientSpawn(r, b)
    \/ ClientQuit
    \/ ClientJoin
    \/ ActorRecv
    \/ ActorPush
    \/ ActorSetHandle
    \/ ActorHandlePoisoned
    \/ ObsLockList
    \/ \E k \in 1..NumRecords : ObsLockRecord(k)
    \/ ObsSendStdin
    \/ ObsUnlock
    \/ \E i \in Loops : SupSpawn(i)
    \/ \E i \in Loops : SupSpawnFail(i)
    \/ \E i \in Loops : SupPollLock(i)
    \/ \E i \in Loops : SupStdout(i)
    \/ \E i \in Loops : SupStderr(i)
    \/ \E i \in Loops : SupStdin(i)
    \/ \E i \in Loops : SupWaitExited(i)
    \/ \E i \in Loops : SupWaitRunning(i)
    \/ \E i \in Loops : SupWaitErr(i)
    \/ \E i \in Loops : SupFatal(i)
    \/ \E i \in Loops : SupRestart(i)
    \/ \E i \in Loops : KidCloseStdout(i)
    \/ \E i \in Loops : KidCloseStderr(i)
    \/ \E i \in Loops, c \in StatusCodes : KidExit(i, c)

Spec == Init /\ [][Next]_vars

\* Spec with its scheduling: a thread that can take a step, or can again and
\* again (its mutex is released again and again), takes it; an observer
\* drops the guards it holds; and every run of a child comes to an end.
SpecFair ==
    /\ Spec
    /\ \A i \in Loops : SF_vars(SupStep(i))
    /\ \A i \in Loops : WF_vars(\E c \in StatusCodes : KidExit(i, c))
    /\ WF_vars(ObsUnlock)

\* Several supervised records whose children are long-running: every record
\* may be submitted, with the default budget, and no child terminates.
NextRegistry ==
    \/ \E r \in Records : ClientSpawn(r, DefaultMaxRestartCount)
    \/ ClientQuit
    \/ ClientJoin
    \/ ActorRecv
    \/ ActorPush
    \/ ActorListPoisoned
    \/ ActorSetHandle
    \/ ActorHandlePoisoned
    \/ ObsLockList
    \/ \E k \in 1..NumRecords : ObsLockRecord(k)
    \/ ObsUnlock
    \/ \E i \in Loops : SupSpawn(i)
    \/ \E i \in Loops : SupSpawnFail(i)
    \/ \E i \in Loops : SupPollLock(i)
    \/ \E i \in Loops : SupStdout(i)
    \/ \E i \in Loops : SupStderr(i)
    \/ \E i \in Loops : SupStdin(i)
    \/ \E i \in Loops : SupWaitRunning(i)
    \/ \E i \in Loops : SupWaitErr(i)
    \/ \E i \in Loops : SupFatal(i)
    \/ \E i \in Loops : KidCloseStdout(i)
    \/ \E i \in Loops : KidCloseStderr(i)

SpecRegistry == Init /\ [][NextRegistry]_vars

\* One record launched twice: the caller submits a record, with a budget of
\* 0..MaxBudget, and then the same record once more, so that two loops
\* supervise it, each with a child of its own.
NextTwice ==
    \/ \E r \in Records, b \in 0..MaxBudget : Len(submitted) = 0 /\ ClientSpawn(r, b)
    \/ \E r \in Records : Len(submitted) = 1 /\ ClientSpawnAgain(r)
    \/ ActorRecv
    \/ ActorPush
    \/ ActorSetHandle
    \/ ActorHandlePoisoned
    \/ \E i \in Loops : SupSpawn(i)
    \/ \E i \in Loops : SupSpawnFail(i)
    \/ \E i \in Loops : SupLockPoisoned(i)
    \/ \E i \in Loops : SupPollLock(i)
    \/ \E i \in Loops : SupStdout(i)
    \/ \E i \in Loops : SupStderr(i)
    \/ \E i \in Loops : SupStdin(i)
    \/ \E i \in Loops : SupWaitExited(i)
    \/ \E i \in Loops : SupWaitRunning(i)
    \/ \E i \in Loops : SupWaitErr(i)
    \/ \E i \in Loops : SupFatal(i)
    \/ \E i \in Loops : SupRestart(i)
    \/ \E i \in Loops : KidCloseStdout(i)
    \/ \E i \in Loops : KidCloseStderr(i)
    \/ \E i \in Loops, c \in StatusCodes : KidExit(i, c)

SpecTwice == Init /\ [][NextTwice]_vars

\* One supervised record whose children write to their stdout, as in
\* process.rs:288-295: the caller submits a single record with a budget of
\* 0..MaxBudget, and every child may write up to MaxLines lines.
NextStdio ==
    \/ \E r \in Records, b \in 0..MaxBudget : Len(submitted) = 0 /\ ClientSpawn(r, b)
    \/ ActorRecv
    \/ ActorPush
    \/ ActorSetHandle
    \/ ActorHandlePoisoned
    \/ \E i \in Loops : SupSpawn(i)
    \/ \E i \in Loops : SupSpawnFail(i)
    \/ \E i \in Loops : SupPollLock(i)
    \/ \E i \in Loops : SupStdoutLine(i)
    \/ \E i \in Loops : SupStdout(i)
    \/ \E i \in Loops : SupStderr(i)
    \/ \E i \in Loops : SupStdin(i)
    \/ \E i \in Loops : SupWaitExited(i)
    \/ \E i \in Loops : SupWaitRunning(i)
    \/ \E i \in Loops : SupWaitErr(i)
    \/ \E i \in Loops : SupFatal(i)
    \/ \E i \in Loops : SupRestart(i)
    \/ \E i \in Loops : KidWrite(i)
    \/ \E i \in Loops : KidCloseStdout(i)
    \/ \E i \in Loops : KidCloseStderr(i)
    \/ \E i \in Loops, c \in StatusCodes : KidExit(i, c)

SpecStdio == Init /\ [][NextStdio]_vars

\* ================================================================ claims

\* The loops that were launched on record r.
LoopsOf(r) == {i \in Loops : i <= Len(processes) /\ processes[i] = r}

\* C1: for a record launched once whose budget is not changed after launch,
\* restart_count <= max_restart_count in every reachable state, whatever the
\* children's exits and the liveness-check errors.
C1_RestartCountWithinBudget ==
    \A r \in Records : proc[r].restart_count <= proc[r].max_restart_count

\* A record that used its whole budget of at least one restart and failed.
C1_Witness ==
    \E r \in Records : /\ proc[r].max_restart_count >= 1
                       /\ proc[r].restart_count = proc[r].max_restart_count
                       /\ proc[r].state = "Failed"

\* C2: Failed is terminal for a record launched once: in no step from a
\* state where the record is Failed do state, restart_count, exit_status or
\* pid change, and no loop of the record spawns a child.
C2_FailedIsTerminal ==
    [][\A r \in Records :
         proc[r].state = "Failed" =>
            /\ proc'[r].state = "Failed"
            /\ proc'[r].restart_count = proc[r].restart_count
            /\ proc'[r].exit_status = proc[r].exit_status
            /\ proc'[r].pid = proc[r].pid
            /\ \A i \in LoopsOf(r) : kid'[i].runs = kid[i].runs /\ sup'[i].pc = sup[i].pc]_vars

\* A record that failed after a liveness-check error with budget left, and
\* that an observer inspects afterwards.
C2_Witness ==
    \E r \in Records : /\ proc[r].state = "Failed"
                       /\ proc[r].restart_count < proc[r].max_restart_count
                       /\ observer.pc = "rec" /\ observer.rec = Some(r)

\* C3: pid is present if and only if a child of the record was spawned and
\* has not yet been observed to have exited; in particular pid is present
\* only while state is Running.
C3_PidOnlyWhileRunning ==
    \A r \in Records :
        /\ (Len(proc[r].pid) > 0) <=>
              (\E i \in LoopsOf(r) :
                  sup[i].pc \in {"poll", "stdout", "stderr", "stdin", "try_wait", "fatal"})
        /\ proc[r].state \in {"Stopped", "Restarting", "Failed"} => proc[r].pid = None

\* The loop of launch i ended abnormally in spawn, or left its poll loop
\* with a liveness-check error.
SpawnOrLivenessError(i) == sup[i].pc = "panicked" \/ sup[i].res = Some("Err")

\* The loop of launch i has ended with its record Failed, the budget used up
\* exactly, one child run per attempt and the last run's code recorded.
FailedAtBudget(i) ==
    /\ i <= Len(processes)
    /\ sup[i].pc = "done"
    /\ proc[RecOf(i)].state = "Failed"
    /\ proc[RecOf(i)].restart_count = proc[RecOf(i)].max_restart_count
    /\ kid[i].runs = proc[RecOf(i)].max_restart_count + 1
    /\ kid[i].st = "exited"
    /\ proc[RecOf(i)].exit_status = kid[i].code

\* C4: if every run of the child ends and no spawn or liveness-check error
\* occurs, a launched loop eventually has its record Failed with
\* restart_count = max_restart_count after exactly max_restart_count + 1
\* runs, whatever the exit codes, and exit_status is the last run's code.
C4_RestartsUntilBudgetExhausted ==
    \A i \in Loops :
        (sup[i].pc = "spawn") ~> (SpawnOrLivenessError(i) \/ FailedAtBudget(i))

\* The default budget used up by a child that exits with code 0 last.
C4_Witness ==
    \E i \in Loops : /\ FailedAtBudget(i)
                     /\ proc[RecOf(i)].max_restart_count = DefaultMaxRestartCount
                     /\ proc[RecOf(i)].exit_status = Some(0)

\* C5: when an exit is observed with restart_count >= max_restart_count,
\* the loop's next step sets Failed directly, leaves restart_count and the
\* recorded exit_status (the exited child's code) as they are and ends the
\* loop, which never spawns again, whatever the exit code.
C5_ExhaustedBudgetFails ==
    [][\A i \in Loops :
         /\ (/\ i <= Len(processes)
             /\ sup[i].pc = "restart"
             /\ proc[processes[i]].restart_count >= proc[processes[i]].max_restart_count
             /\ sup'[i] # sup[i])
            => /\ proc'[processes[i]].state = "Failed"
               /\ proc'[processes[i]].restart_count = proc[processes[i]].restart_count
               /\ proc'[processes[i]].exit_status = kid[i].code
               /\ sup'[i].pc = "done"
               /\ kid'[i] = kid[i]
         /\ sup[i].pc = "done" => sup'[i].pc = "done" /\ kid'[i] = kid[i]]_vars

\* With max_restart_count = 0 the first exit, with code 1, of the first run
\* has failed the record with restart_count = 0.
C5_Witness ==
    \E i \in Loops : /\ FailedAtBudget(i)
                     /\ proc[RecOf(i)].max_restart_count = 0
                     /\ proc[RecOf(i)].restart_count = 0
                     /\ proc[RecOf(i)].exit_status = Some(1)
                     /\ kid[i].runs = 1

IsPrefix(s, t) == Len(s) <= Len(t) /\ \A k \in 1..Len(s) : s[k] = t[k]

\* C6: the registry list is append-only and in submission order: it is
\* always a prefix of the sequence of submitted records, and every step
\* leaves the list as it was or extends it at its end, also once records
\* have failed.
C6_ListIsSubmissionPrefix ==
    /\ [](IsPrefix(processes, submitted))
    /\ [][IsPrefix(processes, processes')]_vars

\* Two records in the list, in the order submitted, the first one Failed.
C6_Witness ==
    /\ Len(processes) = 2
    /\ processes[1] # processes[2]
    /\ proc[processes[1]].state = "Failed"

\* C7: when quit() has returned the actor has left its loop with nothing
\* queued, every record submitted before is in the list and launched (its
\* thread started and its handle stored), and the list no longer changes.
C7_QuitReturnsAfterDrain ==
    /\ [](client = "returned" =>
            /\ actor.pc = "done"
            /\ channel = <<>>
            /\ processes = submitted
            /\ \A i \in 1..Len(processes) :
                  sup[i].pc # "none" /\ Len(proc[processes[i]].handle) > 0)
    /\ [][client = "returned" => processes' = processes]_vars

\* quit() has returned after two spawns.
C7_Witness == client = "returned" /\ Len(processes) >= 2

\* C8: processing Quit changes no record and ends no supervision loop, and
\* a loop launched before quit still runs to its end after quit() has
\* returned: it ends by a panic in spawn or with its record Failed.
C8_QuitLeavesLoopsRunning ==
    /\ [][(actor.pc # "done" /\ actor'.pc = "done") =>
            /\ proc' = proc /\ sup' = sup /\ kid' = kid
            /\ guard' = guard /\ poisoned' = poisoned]_vars
    /\ \A i \in Loops :
          (client = "returned" /\ sup[i].pc # "none")
             ~> (\/ sup[i].pc = "panicked"
                 \/ sup[i].pc = "done" /\ proc[RecOf(i)].state = "Failed")

\* quit() has returned and the loop, having observed an exit, is about to
\* restart the child.
C8_Witness ==
    /\ client = "returned"
    /\ \E i \in Loops : /\ sup[i].pc = "restart"
                        /\ ~BudgetExhausted(proc[RecOf(i)])

\* C9: registry-level operations never wait on a record: while the actor
\* processes a Spawn (holding the list guard) it is never waiting for the
\* guard of a record whose loop holds it blocked on a child that keeps its
\* output open.
C9_RegistryNeverWaitsOnRecord ==
    \A i \in Loops :
        ~(/\ i <= Len(processes)
          /\ actor.pc = "handle"
          /\ Head(actor.cmd) = RecOf(i)
          /\ listGuard = "actor"
          /\ guard[RecOf(i)] = "sup"
          /\ BlockedOnOutput(i))

\* C10: while the child is alive, a poll iteration never waits, holding the
\* record guard, for the child to produce output or to close a stream: every
\* read it is in can complete.
C10_PollNeverWaitsForOutput ==
    \A i \in Loops :
        (i <= Len(processes) /\ kid[i].st = "alive") => ~BlockedOnOutput(i)

\* Record r is in the registry list.
InList(r) == \E k \in 1..Len(processes) : processes[k] = r

\* C12: spawn() returns without waiting for the actor; once the actor has
\* taken a record's Spawn command and pushed the record, the record is in
\* the list, and a record that is in the list stays in it in every step.
C12_SpawnIsFireAndForget ==
    /\ [](actor.pc = "handle" => InList(Head(actor.cmd)))
    /\ [][\A r \in Records : InList(r) => InList(r)']_vars

\* spawn() has returned for two records: the first is in the list and
\* launched, the second is not in the list yet.
C12_Witness ==
    /\ client = "open"
    /\ Len(submitted) = 2
    /\ InList(submitted[1]) /\ ~InList(submitted[2])
    /\ actor.pc = "recv"

\* process.rs:194-203: a loop of record r has observed the exit of a run: it
\* left its last poll loop with Ok, or it has spawned a second child since.
ExitObserved(r) == \E i \in LoopsOf(r) : sup[i].res = Some("Ok") \/ kid[i].runs > 1

\* C13 as stated: exit_status is absent while the record is Stopped and
\* during the whole first Running period (state Running, no restart yet).
C13_AbsentInFirstRunningPeriod ==
    \A r \in Records :
        (\/ proc[r].state = "Stopped"
         \/ proc[r].state = "Running" /\ proc[r].restart_count = 0)
            => proc[r].exit_status = None

\* C13: exit_status is absent in every state in which no run of the
\* record's child has been observed to exit, in particular while the record
\* is Stopped, and its value only changes in the step of the poll iteration
\* whose try_wait finds the child exited; the record is still Running, with
\* exit_status present, from that step until the restart step.
C13_ExitStatusOnlyAfterObservedExit ==
    /\ [](\A r \in Records :
            (~ExitObserved(r) \/ proc[r].state = "Stopped") => proc[r].exit_status = None)
    /\ [][\A r \in Records :
            proc'[r].exit_status # proc[r].exit_status
               => \E i \in LoopsOf(r) : /\ sup[i].pc = "try_wait"
                                        /\ kid[i].st = "exited"
                                        /\ sup'[i].pc = "restart"
                                        /\ proc'[r].exit_status = kid[i].code]_vars

\* The first run's exit, with code 1, has just been recorded: the record is
\* still Running and has not restarted.
C13_Witness ==
    \E i \in Loops : /\ i <= Len(processes)
                     /\ sup[i].pc = "restart"
                     /\ kid[i].runs = 1
                     /\ proc[RecOf(i)].state = "Running"
                     /\ proc[RecOf(i)].restart_count = 0
                     /\ proc[RecOf(i)].exit_status = Some(1)

\* C14: when a loop observes its child's exit while restart_count <
\* max_restart_count, the poll iteration records the child's code (none for
\* a signal) and nothing else; the loop's next step, one step under the
\* record guard, adds exactly 1 to restart_count and sets Restarting, keeps
\* the recorded exit_status and leads to the next spawn, whatever the code.
\* restart_count changes in no other step, and after the first exit the
\* record has restart_count 1, Restarting and the first run's code.
C14_ExitWithBudgetRestarts ==
    /\ [][\A i \in Loops : i <= Len(processes) =>
            LET r == processes[i] IN
            /\ (sup[i].pc = "try_wait" /\ sup'[i].pc = "restart")
                  => /\ kid[i].st = "exited"
                     /\ proc'[r] = [proc[r] EXCEPT !.exit_status = kid[i].code]
            /\ (/\ sup[i].pc = "restart"
                /\ proc[r].restart_count < proc[r].max_restart_count
                /\ sup'[i] # sup[i])
                  => /\ proc'[r] = [proc[r] EXCEPT !.restart_count = @ + 1,
                                                   !.state = "Restarting"]
                     /\ proc'[r].exit_status = kid[i].code
                     /\ sup'[i].pc = "spawn"
                     /\ kid'[i] = kid[i]]_vars
    /\ [][\A r \in Records :
            proc'[r].restart_count # proc[r].restart_count
               => /\ proc'[r].restart_count = proc[r].restart_count + 1
                  /\ proc[r].state = "Running" /\ proc'[r].state = "Restarting"]_vars
    /\ [](\A i \in Loops :
            (i <= Len(processes) /\ sup[i].pc = "spawn" /\ kid[i].runs = 1)
               => /\ proc[RecOf(i)].restart_count = 1
                  /\ proc[RecOf(i)].state = "Restarting"
                  /\ proc[RecOf(i)].exit_status = kid[i].code)

\* After the first exit, with code 0, of a child with budget left: the
\* record is Restarting with restart_count 1 and exit_status Some(0), and
\* the loop is about to spawn again.
C14_Witness ==
    \E i \in Loops : /\ i <= Len(processes)
                     /\ sup[i].pc = "spawn"
                     /\ kid[i].runs = 1 /\ kid[i].code = Some(0)
                     /\ proc[RecOf(i)].restart_count = 1
                     /\ proc[RecOf(i)].state = "Restarting"
                     /\ proc[RecOf(i)].exit_status = Some(0)

\* C15: a liveness-check error leaves the record as it is in the poll
\* iteration, and the loop's next step sets the Running record to Failed,
\* whatever restart_count is, changing no other field (restart_count and
\* exit_status stay) and ending the loop; from the error on the loop spawns
\* no child, and a loop ended by the error has left its record Failed.
C15_LivenessErrorFails ==
    /\ [][\A i \in Loops : i <= Len(processes) =>
            LET r == processes[i] IN
            /\ (sup[i].pc = "try_wait" /\ sup'[i].pc = "fatal")
                  => proc'[r] = proc[r] /\ proc[r].state = "Running"
            /\ (sup[i].pc = "fatal" /\ sup'[i] # sup[i])
                  => /\ proc[r].state = "Running"
                     /\ proc'[r] = [proc[r] EXCEPT !.state = "Failed"]
                     /\ sup'[i].pc = "done"
            /\ sup[i].res = Some("Err")
                  => kid'[i].runs = kid[i].runs /\ sup'[i].res = Some("Err")]_vars
    /\ [](\A i \in Loops :
            (i <= Len(processes) /\ sup[i].res = Some("Err"))
               => /\ sup[i].pc \in {"fatal", "done"}
                  /\ sup[i].pc = "done" => proc[RecOf(i)].state = "Failed")

\* A record with the default budget failed by a liveness-check error in its
\* second run: restart_count is 1 and exit_status is the first run's code.
C15_Witness ==
    \E i \in Loops : /\ i <= Len(processes)
                     /\ sup[i] = [pc |-> "done", res |-> Some("Err")]
                     /\ kid[i].runs = 2 /\ kid[i].st = "alive"
                     /\ proc[RecOf(i)].state = "Failed"
                     /\ proc[RecOf(i)].max_restart_count = DefaultMaxRestartCount
                     /\ proc[RecOf(i)].restart_count = 1
                     /\ proc[RecOf(i)].exit_status = Some(1)

\* process.rs:142, 225, 236 and 241: the assignments to state in launch, as
\* pairs of the state before and the state assigned.
StateChanges == { <<"Stopped", "Running">>, <<"Running", "Restarting">>,
                  <<"Running", "Failed">>, <<"Restarting", "Running">> }

\* C16: every change of a record's state is Stopped->Running,
\* Running->Restarting, Running->Failed or Restarting->Running and happens
\* in a step of a loop launched on that record; Starting is never reached
\* and Stopped never re-entered; a record that was never launched keeps
\* Stopped, restart_count 0 and no exit_status; and no step of the actor
\* thread changes state, restart_count or exit_status of any record.
C16_StateChangesOnlyByLoop ==
    /\ [][\A r \in Records :
            proc'[r].state # proc[r].state
               => /\ <<proc[r].state, proc'[r].state>> \in StateChanges
                  /\ \E i \in LoopsOf(r) : sup'[i].pc # sup[i].pc]_vars
    /\ [](\A r \in Records : proc[r].state \in State \ {"Starting"})
    /\ [](\A r \in Records :
            LoopsOf(r) = {} => /\ proc[r].state = "Stopped"
                               /\ proc[r].restart_count = 0
                               /\ proc[r].exit_status = None)
    /\ [][actor' # actor =>
            \A r \in Records : /\ proc'[r].state = proc[r].state
                                /\ proc'[r].restart_count = proc[r].restart_count
                                /\ proc'[r].exit_status = proc[r].exit_status]_vars

\* One record is Running again after a restart while another, defined but
\* never launched, is as define_process made it.
C16_Witness ==
    /\ \E i \in Loops : /\ i <= Len(processes)
                        /\ kid[i].runs = 2
                        /\ proc[RecOf(i)].state = "Running"
    /\ \E r \in Records : LoopsOf(r) = {} /\ proc[r] = define_process

\* C17: when spawning the child fails, on the first or on a later attempt,
\* the loop ends by a panic and changes no field of the record: the state
\* stays Stopped (first attempt) or Restarting (later attempt), never
\* Failed, pid, exit_status and restart_count stay, and the ended loop
\* takes no further step and spawns nothing.
C17_SpawnFailureLeavesRecord ==
    /\ [][\A i \in Loops : i <= Len(processes) =>
            LET r == processes[i] IN
            /\ (sup[i].pc = "spawn" /\ sup'[i].pc = "panicked")
                  => /\ proc'[r] = proc[r]
                     /\ kid'[i] = kid[i]
                     /\ proc[r].state = IF kid[i].runs = 0 THEN "Stopped" ELSE "Restarting"
            /\ sup[i].pc = "panicked"
                  => /\ sup'[i] = sup[i]
                     /\ kid'[i] = kid[i]
                     /\ proc'[r] = proc[r]]_vars
    /\ [](\A i \in Loops :
            (i <= Len(processes) /\ sup[i].pc = "panicked")
               => /\ proc[RecOf(i)].state = IF kid[i].runs = 0 THEN "Stopped" ELSE "Restarting"
                  /\ kid[i].runs = 0 => proc[RecOf(i)].pid = None
                  /\ kid[i].runs > 0 => /\ proc[RecOf(i)].pid = Some(PidOf(i, kid[i].runs))
                                         /\ proc[RecOf(i)].restart_count = kid[i].runs
                                         /\ proc[RecOf(i)].exit_status = kid[i].code)

\* The spawn of the first restart failed: the loop has ended by a panic,
\* the record is Restarting with restart_count 1 and the first child's pid
\* and exit code.
C17_Witness ==
    \E i \in Loops : /\ i <= Len(processes)
                     /\ sup[i].pc = "panicked"
                     /\ kid[i].runs = 1
                     /\ proc[RecOf(i)].state = "Restarting"
                     /\ proc[RecOf(i)].restart_count = 1
                     /\ proc[RecOf(i)].exit_status = Some(1)
                     /\ proc[RecOf(i)].pid = Some(PidOf(i, 1))

\* C18: also when two loops were launched on the same record, a record
\* that is Failed stays Failed: no step takes it to any other state.
C18_FailedStaysFailedTwoLoops ==
    [][\A r \in Records : proc[r].state = "Failed" => proc'[r].state = "Failed"]_vars

\* process.rs:135: the children spawned so far by the loops of the set S.
RECURSIVE SpawnCount(_)
SpawnCount(S) == IF S = {} THEN 0
                 ELSE LET i == CHOOSE j \in S : TRUE
                      IN kid[i].runs + SpawnCount(S \ {i})

\* C19: with two loops launched on one record, restart_count never exceeds
\* max_restart_count, every step that changes restart_count starts where
\* restart_count < max_restart_count and adds exactly 1 (test and increment
\* are one step), and the loops together have spawned at most
\* restart_count + 2, hence at most max_restart_count + 2, children.
C19_SharedBudgetTwoLoops ==
    /\ [](\A r \in Records :
            /\ proc[r].restart_count <= proc[r].max_restart_count
            /\ SpawnCount(LoopsOf(r)) <= proc[r].restart_count + 2
            /\ SpawnCount(LoopsOf(r)) <= proc[r].max_restart_count + 2)
    /\ [][\A r \in Records :
            proc'[r].restart_count # proc[r].restart_count
               => /\ proc[r].restart_count < proc[r].max_restart_count
                  /\ proc'[r].restart_count = proc[r].restart_count + 1]_vars

\* Two loops on one record have used up its budget of at least one restart
\* and spawned max_restart_count + 2 children, both loops among them having
\* restarted or spawned.
C19_Witness ==
    \E r \in Records :
        /\ Cardinality(LoopsOf(r)) = 2
        /\ proc[r].max_restart_count >= 1
        /\ proc[r].restart_count = proc[r].max_restart_count
        /\ SpawnCount(LoopsOf(r)) = proc[r].max_restart_count + 2
        /\ \A i \in LoopsOf(r) : kid[i].runs >= 1

\* The threads that take guards: the actor (lib.rs:45-58), the observer
\* (lib.rs:115-124) and the loop of each launch (process.rs:117-246).
Threads == {<<"actor", 0>>, <<"observer", 0>>} \cup {<<"sup", i>> : i \in Loops}

\* lib.rs:49 and 115: thread t holds the list guard.
HoldsList(t) == t[1] \in {"actor", "observer"} /\ listGuard = t[1]

\* lib.rs:118 and process.rs:152: thread t holds the guard of record r (a
\* loop holds it from the start of a poll iteration to its end).
HoldsRecord(t, r) ==
    \/ t[1] = "observer" /\ guard[r] = "observer"
    \/ /\ t[1] = "sup" /\ guard[r] = "sup"
       /\ t[2] <= Len(processes) /\ processes[t[2]] = r
       /\ sup[t[2]].pc \in {"stdout", "stderr", "stdin", "try_wait"}

\* lib.rs:49 and 115: the next thing thread t does is take the list guard.
WantsList(t) ==
    \/ t[1] = "actor" /\ actor.pc = "lock"
    \/ t[1] = "observer" /\ observer.pc = "idle"

\* process.rs:248, lib.rs:118 and process.rs:120, 152, 224, 232: the next
\* thing thread t does is take the guard of record r.
WantsRecord(t, r) ==
    \/ t[1] = "actor" /\ actor.pc = "handle" /\ Head(actor.cmd) = r
    \/ t[1] = "observer" /\ observer.pc = "list" /\ InList(r)
    \/ /\ t[1] = "sup"
       /\ t[2] <= Len(processes) /\ processes[t[2]] = r
       /\ sup[t[2]].pc \in {"spawn", "poll", "fatal", "restart"}

\* Thread t waits for a guard that thread u holds.
WaitsFor(t, u) ==
    /\ t # u
    /\ \/ WantsList(t) /\ HoldsList(u)
       \/ \E r \in Records : WantsRecord(t, r) /\ HoldsRecord(u, r)

\* There is a chain of at most n + 1 waits from thread t to thread u.
RECURSIVE WaitChain(_, _, _)
WaitChain(t, u, n) ==
    \/ WaitsFor(t, u)
    \/ n > 0 /\ \E v \in Threads : WaitsFor(t, v) /\ WaitChain(v, u, n - 1)

\* C20: guards are taken in the order list, record, child handle: no loop
\* ever holds the list guard, a loop polls its child's handle only under
\* the record guard, the observer holds a record guard only under the list
\* guard, the actor takes a record guard only under the list guard, and a
\* thread that holds a record guard waits for no guard; so in no reachable
\* state do threads wait for each other's guards in a cycle.
C20_GuardOrderNoCyclicWait ==
    /\ [](listGuard \in {"free", "actor", "observer"})
    /\ [](\A r \in Records : guard[r] = "observer" => listGuard = "observer")
    /\ [](\A t \in Threads, r \in Records :
            HoldsRecord(t, r) => /\ ~WantsList(t)
                                 /\ \A q \in Records : ~WantsRecord(t, q))
    /\ [](\A t \in Threads : ~WaitChain(t, t, Cardinality(Threads)))
    /\ [][/\ (actor.pc = "handle" /\ actor'.pc # "handle") => listGuard = "actor"
          /\ \A i \in Loops :
                (i <= Len(processes) /\ sup[i].pc = "try_wait" /\ sup'[i].pc # "try_wait")
                   => guard[processes[i]] = "sup" /\ listGuard' = listGuard]_vars

\* A chain of waits that is not a cycle: the observer waits for the list
\* guard, which the actor holds while it waits for the guard of a record
\* that a loop holds in a poll iteration.
C20_Witness ==
    \E i \in Loops :
        /\ WaitsFor(<<"observer", 0>>, <<"actor", 0>>)
        /\ WaitsFor(<<"actor", 0>>, <<"sup", i>>)
        /\ \E j \in Loops : j # i /\ sup[j].pc = "poll"

\* C11: the lines sent on a record's outbound stdout channel, followed by
\* the lines still in the pipe, are exactly the lines the loop's children
\* have written, each once and in the order written; when the loop records
\* a run's exit (and in every later state outside a run) every line written
\* so far has been sent; and when a child with max_restart_count = 0 wrote
\* one line and exited, the channel holds exactly that line.
C11_StdoutDeliveredOnceInOrder ==
    /\ [](\A i \in Loops : i <= Len(processes) =>
            proc[RecOf(i)].stdout \o kid[i].pipe = kid[i].log)
    /\ [][\A i \in Loops :
            (i <= Len(processes) /\ sup[i].pc = "try_wait" /\ sup'[i].pc = "restart")
               => /\ proc[processes[i]].stdout = kid[i].log
                  /\ proc'[processes[i]].stdout = kid[i].log]_vars
    /\ [](\A i \in Loops :
            (i <= Len(processes) /\ sup[i].pc \in {"restart", "done"})
               => proc[RecOf(i)].stdout = kid[i].log)
    /\ [](\A i \in Loops :
            (/\ i <= Len(processes) /\ sup[i].pc = "done"
             /\ proc[RecOf(i)].max_restart_count = 0
             /\ kid[i].st = "exited" /\ kid[i].wrote = 1)
               => proc[RecOf(i)].stdout = <<Line(1, 1)>>)

\* A record with max_restart_count = 0 whose child wrote one line and
\* exited with code 0: the record is Failed and the channel holds the line.
C11_Witness ==
    \E i \in Loops : /\ i <= Len(processes)
                     /\ sup[i] = [pc |-> "done", res |-> Some("Ok")]
                     /\ proc[RecOf(i)].max_restart_count = 0
                     /\ proc[RecOf(i)].state = "Failed"
                     /\ proc[RecOf(i)].exit_status = Some(0)
                     /\ kid[i].wrote = 1
                     /\ proc[RecOf(i)].stdout = <<Line(1, 1)>>

====
